---- MODULE Spec2Model ----
(***************************************************************************)
(* State-machine model of the dashboard component App of                   *)
(* src/tumor-target-db/src/App.tsx: the loaded datasets, the cancer-type   *)
(* filter, the numeric sort, the pagination, the gene searches and the     *)
(* report gateway.                                                         *)
(*                                                                         *)
(* Strings of the program are TLA+ strings.  A JavaScript number is a      *)
(* record [nan, val] whose val counts hundredths (0.95 is 95), so that the *)
(* string-to-number conversion Number(..) is a real conversion that can    *)
(* fail (NaN).  A rendered template string is the sequence of its pieces.  *)
(***************************************************************************)
EXTENDS Integers, Sequences, FiniteSets, TLC

VARIABLES
    selectivityData,      \* useState<GeneSelectivity[]>        (line 201)
    tumorNormalData,      \* useState<TumorNormalData[]>        (line 202)
    cptacData,            \* useState<CptacData[]>              (line 203)
    selectedCancer,       \* line 204
    selectedGene,         \* line 205, Null or a gene name
    sortConfig,           \* line 206, [key, dir]
    loading,              \* line 207
    reportModal,          \* line 208
    reportLoading,        \* line 209
    reportContent,        \* line 210, a sequence of string pieces
    reportGene,           \* line 211
    searchQuery,          \* line 212
    searchError,          \* line 213
    currentPage,          \* line 214
    volcanoSearch,        \* line 215
    volcanoSearchError,   \* line 216
    barChartGene,         \* line 220
    barChartSearch,       \* line 221
    barChartSearchError,  \* line 222
    globalSearch,         \* line 223
    globalSearchResults,  \* line 224, Null or [volcano, barChart, table]
    requests,             \* the report requests issued so far, in issue order
    effGene,              \* the selectedGene the bar-chart effect last ran for
    fetches,              \* the three fetch promises of the load effect
    bodies,               \* the text each fulfilled fetch delivered, where a
                          \* specification follows the texts
    last                  \* history: the step just taken and the page before it

vars == <<selectivityData, tumorNormalData, cptacData, selectedCancer,
          selectedGene, sortConfig, loading, reportModal, reportLoading,
          reportContent, reportGene, searchQuery, searchError, currentPage,
          volcanoSearch, volcanoSearchError, barChartGene, barChartSearch,
          barChartSearchError, globalSearch, globalSearchResults, requests,
          effGene, fetches, bodies, last>>

dataVars == <<selectivityData, tumorNormalData, cptacData, loading, fetches,
              bodies>>

reportVars == <<reportModal, reportLoading, reportContent, reportGene, requests>>

otherSearchVars == <<volcanoSearch, volcanoSearchError, barChartSearch,
                     barChartSearchError, globalSearch, globalSearchResults>>

-----------------------------------------------------------------------------
(* Program constants *)

ALL_CANCERS == "All Cancers"

\* Two of the twenty entries of the list; the filter treats all alike.
CANCER_TYPES == {"breast cancer", "lung cancer"}

PAGE_SIZE == 50

\* The columns whose header cell calls handleSort (three of the six).
SortKeys == {"gene_name", "Selection_Score", "max_tumor_expression"}

\* JavaScript's null, as a string no dataset holds.
Null == "<null>"

-----------------------------------------------------------------------------
(* Bounds of the model *)

\* Longest selectivity dataset enumerated exhaustively.
MaxRows == 3

\* Longest generated selectivity dataset (one full page and one row).
MaxTotal == 51

\* Longest enumerated file text, in pieces.
MaxText == 5

\* Report requests issued in one behaviour.
MaxReports == 2

-----------------------------------------------------------------------------
(* JavaScript values *)

NaN == [nan |-> TRUE, val |-> 0]

Num(v) == [nan |-> FALSE, val |-> v]

\* Number(s) for the field strings of the modelled datasets: a numeric literal
\* converts to its value (in hundredths), the empty string to 0, any other
\* text to NaN.
Number(s) ==
    CASE s = ""     -> Num(0)
      [] s = "0.7"  -> Num(70)
      [] s = "0.9"  -> Num(90)
      [] s = "0.95" -> Num(95)
      [] s = "1.5"  -> Num(150)
      [] s = "2"    -> Num(200)
      [] OTHER      -> NaN

\* a > b on numbers: false as soon as one side is NaN.
JsGt(a, b) == ~a.nan /\ ~b.nan /\ a.val > b.val

\* a >= b on numbers: false as soon as one side is NaN.
JsGe(a, b) == ~a.nan /\ ~b.nan /\ a.val >= b.val

\* x || 0 on a number: NaN and 0 are falsy.
OrZero(x) == IF x.nan \/ x.val = 0 THEN 0 ELSE x.val

\* Truthiness of a string-or-null state value.
Truthy(s) == s # Null /\ s # ""

\* String.prototype.trim on the query strings the model types.
Trim(s) ==
    CASE s = "  "     -> ""
      [] s = " EGFR " -> "EGFR"
      [] OTHER        -> s

\* String.prototype.toUpperCase on the gene names and queries of the model.
ToUpperCase(s) ==
    CASE s = "tp53"     -> "TP53"
      [] s = "C1orf112" -> "C1ORF112"
      [] s = "c1orf112" -> "C1ORF112"
      [] s = "breast cancer" -> "BREAST CANCER"
      [] s = "Breast cancer" -> "BREAST CANCER"
      [] s = "lung cancer" -> "LUNG CANCER"
      [] OTHER          -> s

Min(a, b) == IF a < b THEN a ELSE b

Max(a, b) == IF a > b THEN a ELSE b

\* Array.prototype.slice(b, e): negative offsets count from the end, and both
\* are clamped to the array.
Slice(s, b, e) ==
    LET n    == Len(s)
        from == IF b < 0 THEN Max(n + b, 0) ELSE Min(b, n)
        to   == IF e < 0 THEN Max(n + e, 0) ELSE Min(e, n)
    IN  IF from >= to THEN <<>> ELSE SubSeq(s, from + 1, to)

-----------------------------------------------------------------------------
(* The delimited-text parser, lines 66-75 *)

\* A text is the sequence of its pieces: the line feed, the tab, the space,
\* and words, which neither begin nor end with white space and hold no line
\* feed and no tab.
NL == "\n"

TAB == "\t"

SPACE == " "

Whitespace == {NL, TAB, SPACE}

\* String.prototype.trim on a text: white space dropped at both ends.
TrimText(text) ==
    LET solid == {i \in 1..Len(text) : text[i] \notin Whitespace}
    IN  IF solid = {} THEN <<>>
        ELSE SubSeq(text, CHOOSE i \in solid : \A j \in solid : i <= j,
                          CHOOSE i \in solid : \A j \in solid : j <= i)

\* String.prototype.split(sep) on a text: the pieces between the separators,
\* one more than there are separators.
Split(text, sep) ==
    LET n   == Len(text)
        at  == SelectSeq([i \in 1..n |-> i], LAMBDA i : text[i] = sep)
        from(k) == IF k = 1 THEN 1 ELSE at[k - 1] + 1
        to(k)   == IF k = Len(at) + 1 THEN n ELSE at[k] - 1
    IN  [k \in 1..(Len(at) + 1) |-> SubSeq(text, from(k), to(k))]

\* The string a sequence of pieces spells.
Spell(pieces) ==
    LET cat[i \in 0..Len(pieces)] ==
            IF i = 0 THEN "" ELSE cat[i - 1] \o pieces[i]
    IN  cat[Len(pieces)]

\* line.split('\t') as strings.
Fields(line) ==
    LET parts == Split(line, TAB)
    IN  [i \in 1..Len(parts) |-> Spell(parts[i])]

\* values[i] || '' for the 1-based position i.
ValueAt(values, i) == IF i <= Len(values) THEN values[i] ELSE ""

\* The object built by headers.forEach for one line: a later header of the
\* same name overwrites an earlier one.
RecordOf(headers, values) ==
    [h \in {headers[i] : i \in 1..Len(headers)} |->
        LET i == CHOOSE i \in 1..Len(headers) :
                    /\ headers[i] = h
                    /\ \A j \in 1..Len(headers) : headers[j] = h => j <= i
        IN  ValueAt(values, i)]

parseTSV(text) ==
    LET lines   == Split(TrimText(text), NL)
        headers == Fields(lines[1])
    IN  [k \in 1..(Len(lines) - 1) |-> RecordOf(headers, Fields(lines[k + 1]))]

-----------------------------------------------------------------------------
(* Datasets *)

Row(g, s, m, p) ==
    [gene_name |-> g, Selection_Score |-> s, max_tumor_expression |-> m,
     active_project |-> p]

\* max_tumor_expression of the enumerated rows: fixed per (gene, project), so
\* that the two numeric columns order the rows differently; one is missing.
TumorExprOf(g, p) ==
    CASE g = "TP53" /\ p = "breast cancer" -> "1.5"
      [] g = "TP53" /\ p = "lung cancer"   -> "2"
      [] g = "EGFR" /\ p = "breast cancer" -> "2"
      [] OTHER                             -> ""

\* The rows the exhaustive enumeration draws from: a score can tie, differ
\* or fail to parse.
EnumRows ==
    { Row(g, s, TumorExprOf(g, p), p) :
        g \in {"TP53", "EGFR"}, s \in {"0.9", "0.95", "NA"},
        p \in {"breast cancer", "lung cancer"} }

RECURSIVE SeqsUpTo(_, _)
SeqsUpTo(S, n) ==
    IF n = 0 THEN {<<>>}
    ELSE LET shorter == SeqsUpTo(S, n - 1)
         IN  shorter \cup {Append(q, x) : q \in shorter, x \in S}

\* The example dataset of the specification's testable properties.
ExampleData ==
    << Row("TP53", "0.9", "1.5", "breast cancer"),
       Row("TP53", "0.95", "2", "lung cancer"),
       Row("EGFR", "0.7", "2", "breast cancer") >>

\* Project names that differ only in letter case, and a mixed-case gene name.
CaseData ==
    << Row("TP53", "0.9", "1.5", "Breast cancer"),
       Row("C1orf112", "0.95", "2", "breast cancer"),
       Row("TP53", "0.7", "", "lung cancer"),
       Row("EGFR", "0.9", "1.5", "lung cancer") >>

EnumDatasets == SeqsUpTo(EnumRows, MaxRows) \cup {ExampleData, CaseData}

\* The rows the sort is enumerated on: three genes, so that the view of all
\* cancers keeps up to three rows; scores tie, differ, are missing or fail to
\* parse, and the second numeric column orders the genes the other way.
SortRows ==
    { Row(g, s, CASE g = "TP53" -> "" [] g = "EGFR" -> "2" [] OTHER -> "2",
          "breast cancer") :
        g \in {"TP53", "EGFR", "KRAS"}, s \in {"0.9", "0.95", "NA"} }

SortDatasets == SeqsUpTo(SortRows, MaxRows)

\* Row i of a generated dataset: a gene of its own, scores that tie every
\* fourth row, projects that alternate.
GenRow(i) ==
    Row("G" \o ToString(i),
        CASE i % 4 = 0 -> "0.9" [] i % 4 = 1 -> "0.95" [] i % 4 = 2 -> "0.7"
          [] OTHER -> "NA",
        CASE i % 3 = 0 -> "1.5" [] i % 3 = 1 -> "" [] OTHER -> "2",
        IF i % 2 = 1 THEN "breast cancer" ELSE "lung cancer")

GenData(n) == [i \in 1..n |-> GenRow(i)]

\* Their lengths: up to MaxTotal, at most two rows past a page boundary or
\* one row short of it.
GenSizes == {n \in 0..MaxTotal : n % PAGE_SIZE \in {0, 1, 2, PAGE_SIZE - 1}}

GenDatasets == {GenData(n) : n \in GenSizes}

-----------------------------------------------------------------------------
(* Derived values (the useMemo blocks) *)

\* The value the Map holds for one gene when the forEach (lines 258-263) is
\* over: rows are that gene's rows in input order; the first is stored
\* (!existing), a later one replaces the stored one only when its score
\* compares greater.
KeepMaxScore(rows) ==
    LET existing[i \in 1..Len(rows)] ==
            IF i = 1 THEN rows[1]
            ELSE LET prev == existing[i - 1]
                 IN  IF JsGt(Number(rows[i].Selection_Score),
                             Number(prev.Selection_Score))
                     THEN rows[i] ELSE prev
    IN  existing[Len(rows)]

\* Array.from(geneMap.values()) after the forEach: a Map lists its keys in the
\* order they were first inserted, and a set on a present key keeps its place,
\* so entry k belongs to the k-th gene_name to appear in data.
GroupMaxScore(data) ==
    LET n     == Len(data)
        first == SelectSeq([i \in 1..n |-> i],
                     LAMBDA i : \A j \in 1..(i - 1) :
                                    data[j].gene_name # data[i].gene_name)
    IN  [k \in 1..Len(first) |->
            KeepMaxScore(SelectSeq(data,
                LAMBDA d : d.gene_name = data[first[k]].gene_name))]

\* Variant: the project compared without regard to letter case.
ProjectMatchesIgnoringCase(d, cancer) ==
    ToUpperCase(d.active_project) = ToUpperCase(cancer)

\* d.active_project === selectedCancer (line 266).
ProjectMatches(d, cancer) == d.active_project = cancer

FilteredSelectivityOf(data, cancer) ==
    IF cancer = ALL_CANCERS
    THEN GroupMaxScore(data)
    ELSE SelectSeq(data, LAMBDA d : ProjectMatches(d, cancer))

filteredSelectivity == FilteredSelectivityOf(selectivityData, selectedCancer)

\* Variant: the cancer type compared without regard to letter case.
CancerMatchesIgnoringCase(d, cancer) ==
    ToUpperCase(d.Cancer) = ToUpperCase(cancer)

\* d.Cancer === selectedCancer (line 273).
CancerMatches(d, cancer) == d.Cancer = cancer

\* The differential view, lines 269-274.
FilteredCptacOf(data, cancer) ==
    IF cancer = ALL_CANCERS THEN data
    ELSE SelectSeq(data, LAMBDA d : CancerMatches(d, cancer))

filteredCptac == FilteredCptacOf(cptacData, selectedCancer)

\* aVal, bVal of the comparator: Number(field) || 0.
SortValue(d, key) == OrZero(Number(d[key]))

\* Variant: the direction ignored, always descending.
CompareDescending(aVal, bVal, dir) == bVal - aVal

\* The comparator's result for two sort values.
Compare(aVal, bVal, dir) == IF dir = "desc" THEN bVal - aVal ELSE aVal - bVal

\* Array.prototype.sort with that comparator (a stable sort, ECMAScript 2019):
\* index i comes before index j when the comparator orders its value first,
\* or calls the two equal and i is the earlier one.  The result lists the
\* indices of vals in sorted order.
StableSortIdx(vals, dir) ==
    SortSeq([i \in 1..Len(vals) |-> i],
            LAMBDA i, j : \/ Compare(vals[i], vals[j], dir) < 0
                          \/ Compare(vals[i], vals[j], dir) = 0 /\ i < j)

SortedDataOf(data, cfg) ==
    LET rows == SubSeq(data, 1, Len(data))
        vals == [i \in 1..Len(rows) |-> SortValue(rows[i], cfg.key)]
        perm == StableSortIdx(vals, cfg.dir)
    IN  [k \in 1..Len(rows) |-> rows[perm[k]]]

sortedData == SortedDataOf(filteredSelectivity, sortConfig)

TotalPagesOf(total) == (total + PAGE_SIZE - 1) \div PAGE_SIZE

totalPages == TotalPagesOf(Len(filteredSelectivity))

\* Variant: the slice started one page too far.
PaginatedDataFromNextPage(sorted, page) ==
    LET start == page * PAGE_SIZE
    IN  Slice(sorted, start, start + PAGE_SIZE)

PaginatedDataOf(sorted, page) ==
    LET start == (page - 1) * PAGE_SIZE
    IN  Slice(sorted, start, start + PAGE_SIZE)

paginatedData == PaginatedDataOf(sortedData, currentPage)

-----------------------------------------------------------------------------
(* Messages and small input sets *)

\* The inline message of a table search miss (line 330; Chinese text in the
\* source, "gene not retrieved").
TableMissMessage == "table: gene not found"

\* The inline messages of a volcano search miss (line 436) and of a bar-chart
\* search miss (line 348); Chinese texts in the source.
VolcanoMissMessage == "volcano: gene not found"

BarChartMissMessage == "bar chart: gene not searched out"

\* The message a global search miss sets for each of the three views (lines
\* 381, 389 and 399; one Chinese text in the source, "cannot retrieve the gene").
GlobalMissMessage == "global: gene not retrievable"

\* What the user types into the search boxes of the three views.
ViewQueries == {"", "tp53", "EGFR"}

\* What the user types when looking up a gene of a generated dataset: the
\* gene the default order puts last, a gene of the first page, a gene no
\* dataset holds.
JumpQueries == {"G51", "G2", "G77"}

\* A dataset of one page and one that runs onto a second page.
JumpDatasets == {GenData(2), GenData(MaxTotal)}

\* What the user types into the table search box.
Queries == {"", "  ", "tp53", " EGFR ", "c1orf112", "G77"}

\* The scopes of the sidebar buttons (lines 592 and 600-605).
Scopes == {ALL_CANCERS} \cup CANCER_TYPES

\* Rows of the displayed page whose cells the model clicks.
MaxClickRow == 2

\* The other two datasets, as loaded (only their gene names are read).
IhcData == << [Gene |-> "ENSG1", GeneName |-> "TP53"] >>

CptacRows ==
    << [Cancer |-> "breast cancer", Gene |-> "ENSG1", GeneName |-> "TP53"],
       [Cancer |-> "lung cancer", Gene |-> "ENSG2", GeneName |-> "EGFR"] >>

\* The three files fetched on mount (lines 243-245).
Sources == {"selectivity", "tumorNormal", "cptac"}

\* The pieces the enumerated texts are made of, and the texts.
TextPieces == {NL, TAB, ",", "a", "1"}

Texts == SeqsUpTo(TextPieces, MaxText)

\* A selectivity file of one row, its fields separated by sep.
SelectivityFile(sep) ==
    <<"gene_name", sep, "Selection_Score", sep, "active_project", NL,
      "TP53", sep, "0.9", sep, "breast cancer", NL>>

\* A tab-separated file whose first column has no name.
UnnamedColumnFile ==
    <<TAB, "gene_name", TAB, "Selection_Score", NL,
      "0", TAB, "TP53", TAB, "0.9", NL>>

\* The texts of the selectivity file.
SelectivityTexts ==
    Texts \cup {SelectivityFile(TAB), SelectivityFile(","), UnnamedColumnFile}

\* The texts of the other two files.
TumorNormalText ==
    <<"Gene", TAB, "Gene name", NL, "ENSG1", TAB, "TP53", NL>>

CptacText ==
    <<"Cancer", TAB, "Gene", TAB, "Gene name", NL,
      "breast cancer", TAB, "ENSG1", TAB, "TP53", NL>>

TextsOf(s) ==
    CASE s = "selectivity" -> SelectivityTexts
      [] s = "tumorNormal" -> {TumorNormalText}
      [] s = "cptac" -> {CptacText}

\* The rows and datasets the differential view is enumerated on.
CptacEnumRows ==
    { [Cancer |-> c, Gene |-> "ENSG1", GeneName |-> g] :
        c \in {"breast cancer", "Breast cancer", "lung cancer"},
        g \in {"TP53", "EGFR"} }

CptacDatasets == SeqsUpTo(CptacEnumRows, MaxRows)

\* The datasets the full interface is explored on.
UiDatasets == {<<>>, ExampleData, CaseData}

\* Datasets for the table selection: none, the two examples, and one whose
\* rows are all of one cancer type, so that the other type's view is empty.
SelectDatasets == UiDatasets \cup {SubSeq(ExampleData, 1, 1)}

-----------------------------------------------------------------------------
(* Initial state: the useState initialisers, lines 201-228 *)

Init ==
    /\ selectivityData = <<>>
    /\ tumorNormalData = <<>>
    /\ cptacData = <<>>
    /\ selectedCancer = ALL_CANCERS
    /\ selectedGene = Null
    /\ sortConfig = [key |-> "Selection_Score", dir |-> "desc"]
    /\ loading = TRUE
    /\ reportModal = FALSE
    /\ reportLoading = FALSE
    /\ reportContent = <<>>
    /\ reportGene = ""
    /\ searchQuery = ""
    /\ searchError = ""
    /\ currentPage = 1
    /\ volcanoSearch = ""
    /\ volcanoSearchError = ""
    /\ barChartGene = Null
    /\ barChartSearch = ""
    /\ barChartSearchError = ""
    /\ globalSearch = ""
    /\ globalSearchResults = <<>>
    /\ requests = <<>>
    /\ effGene = Null
    /\ fetches = [s \in Sources |-> "pending"]
    /\ bodies = [s \in Sources |-> <<>>]
    /\ last = [op |-> "init", page |-> 1, arg |-> 0]

Step(op, arg) == last' = [op |-> op, page |-> currentPage, arg |-> arg]

-----------------------------------------------------------------------------
(* Effects *)

\* The auto-select effect's condition (line 294) on the rendered state; the
\* last conjunct is React's bail-out when the two setters change nothing.
AutoSelectDue ==
    /\ ~Truthy(selectedGene)
    /\ Len(sortedData) > 0
    /\ <<selectedGene, barChartGene>>
         # <<sortedData[1].gene_name, sortedData[1].gene_name>>

\* The bar-chart effect runs when its dependency selectedGene has changed.
BarChartSyncDue == selectedGene # effGene

EffectsIdle == ~AutoSelectDue /\ ~BarChartSyncDue

\* The effect phase of one commit: both effects read the same rendered state.
RunEffects ==
    /\ ~EffectsIdle
    /\ LET auto == AutoSelectDue
           sync == BarChartSyncDue /\ Truthy(selectedGene)
           top  == sortedData[1].gene_name
       IN  /\ selectedGene' = IF auto THEN top ELSE selectedGene
           /\ barChartGene' = IF auto THEN top
                              ELSE IF sync THEN selectedGene ELSE barChartGene
           /\ barChartSearch' = IF sync THEN "" ELSE barChartSearch
           /\ barChartSearchError' = IF sync THEN "" ELSE barChartSearchError
    /\ effGene' = selectedGene
    /\ Step("effects", 0)
    /\ UNCHANGED <<dataVars, reportVars, selectedCancer, sortConfig,
                   searchQuery, searchError, currentPage, volcanoSearch,
                   volcanoSearchError, globalSearch, globalSearchResults>>

\* The interface is rendered once loading is false (line 563), and an event
\* handler runs on a committed render whose effects have been flushed.
Interactive == ~loading /\ EffectsIdle

-----------------------------------------------------------------------------
(* Startup load: the then-callback of Promise.all *)

\* One of the three promises fetch(..).then(r => r.text()) is fulfilled.
FetchResolves(s) ==
    /\ fetches[s] = "pending"
    /\ fetches' = [fetches EXCEPT ![s] = "resolved"]
    /\ Step("fetchResolves", 0)
    /\ UNCHANGED <<selectivityData, tumorNormalData, cptacData, loading,
                   reportVars, otherSearchVars, selectedCancer, selectedGene,
                   sortConfig, searchQuery, searchError, currentPage,
                   barChartGene, effGene, bodies>>

\* The same, the delivered text recorded.
FetchDelivers(s, text) ==
    /\ fetches[s] = "pending"
    /\ fetches' = [fetches EXCEPT ![s] = "resolved"]
    /\ bodies' = [bodies EXCEPT ![s] = text]
    /\ Step("fetchResolves", 0)
    /\ UNCHANGED <<selectivityData, tumorNormalData, cptacData, loading,
                   reportVars, otherSearchVars, selectedCancer, selectedGene,
                   sortConfig, searchQuery, searchError, currentPage,
                   barChartGene, effGene>>

\* One of the three promises is rejected: the fetch fails or r.text() does.
FetchRejects(s) ==
    /\ fetches[s] = "pending"
    /\ fetches' = [fetches EXCEPT ![s] = "rejected"]
    /\ Step("fetchRejects", 0)
    /\ UNCHANGED <<selectivityData, tumorNormalData, cptacData, loading,
                   reportVars, otherSearchVars, selectedCancer, selectedGene,
                   sortConfig, searchQuery, searchError, currentPage,
                   barChartGene, effGene, bodies>>

\* Promise.all is fulfilled when each of its promises is (line 242).
AllFetched == \A s \in Sources : fetches[s] = "resolved"

\* Variant: the callback run as soon as the selectivity file has arrived.
LoadOnFirstFile(sel, tn, cp) ==
    /\ loading
    /\ fetches["selectivity"] = "resolved"
    /\ selectivityData' = sel
    /\ tumorNormalData' = tn
    /\ cptacData' = cp
    /\ loading' = FALSE
    /\ Step("load", 0)
    /\ UNCHANGED <<reportVars, otherSearchVars, selectedCancer, selectedGene,
                   sortConfig, searchQuery, searchError, currentPage,
                   barChartGene, effGene, fetches, bodies>>

\* The then-callback of Promise.all (lines 246-251); the promise has no
\* rejection handler.
Load(sel, tn, cp) ==
    /\ loading
    /\ AllFetched
    /\ selectivityData' = sel
    /\ tumorNormalData' = tn
    /\ cptacData' = cp
    /\ loading' = FALSE
    /\ Step("load", 0)
    /\ UNCHANGED <<reportVars, otherSearchVars, selectedCancer, selectedGene,
                   sortConfig, searchQuery, searchError, currentPage,
                   barChartGene, effGene, fetches, bodies>>

\* The callback on the delivered texts: parseTSV applied to each of the
\* three (lines 247-249).
LoadBodies ==
    Load(parseTSV(bodies["selectivity"]), parseTSV(bodies["tumorNormal"]),
         parseTSV(bodies["cptac"]))

\* The load effect has the dependency list [] (line 252): it runs once, on
\* mount, with whatever the three files hold.
Loads(datasets) ==
    /\ loading
    /\ \E sel \in datasets : Load(sel, IhcData, CptacRows)

-----------------------------------------------------------------------------
(* Event handlers of the table pipeline *)

\* Variant: a change of scope keeps the table selection.
HandleCancerChangeKeepingSelection(cancer) ==
    /\ Interactive
    /\ selectedCancer' = cancer
    /\ barChartGene' = Null
    /\ currentPage' = 1
    /\ searchQuery' = ""
    /\ searchError' = ""
    /\ volcanoSearch' = ""
    /\ volcanoSearchError' = ""
    /\ barChartSearch' = ""
    /\ barChartSearchError' = ""
    /\ globalSearch' = ""
    /\ globalSearchResults' = <<>>
    /\ Step("handleCancerChange", 0)
    /\ UNCHANGED <<dataVars, reportVars, sortConfig, effGene, selectedGene>>

\* handleCancerChange, lines 310-323.
HandleCancerChange(cancer) ==
    /\ Interactive
    /\ selectedCancer' = cancer
    /\ selectedGene' = Null
    /\ barChartGene' = Null
    /\ currentPage' = 1
    /\ searchQuery' = ""
    /\ searchError' = ""
    /\ volcanoSearch' = ""
    /\ volcanoSearchError' = ""
    /\ barChartSearch' = ""
    /\ barChartSearchError' = ""
    /\ globalSearch' = ""
    /\ globalSearchResults' = <<>>
    /\ Step("handleCancerChange", 0)
    /\ UNCHANGED <<dataVars, reportVars, sortConfig, effGene>>

\* Variant: the direction flipped whatever key was active.
NextSortConfigIgnoringKey(prev, key) ==
    [key |-> key, dir |-> IF prev.dir = "desc" THEN "asc" ELSE "desc"]

\* Variant: an active key always turned ascending, never back.
NextSortConfigNeverBack(prev, key) ==
    [key |-> key, dir |-> IF prev.key = key THEN "asc" ELSE "desc"]

\* The updater passed to setSortConfig (line 559).
NextSortConfig(prev, key) ==
    [key |-> key,
     dir |-> IF prev.key = key /\ prev.dir = "desc" THEN "asc" ELSE "desc"]

\* Variant: the sort request without setCurrentPage(1).
HandleSortKeepingPage(key) ==
    /\ Interactive
    /\ sortConfig' = NextSortConfig(sortConfig, key)
    /\ Step("handleSort", 0)
    /\ UNCHANGED <<dataVars, reportVars, otherSearchVars, selectedCancer,
                   selectedGene, searchQuery, searchError, barChartGene,
                   effGene, currentPage>>

HandleSort(key) ==
    /\ Interactive
    /\ sortConfig' = NextSortConfig(sortConfig, key)
    /\ currentPage' = 1
    /\ Step("handleSort", 0)
    /\ UNCHANGED <<dataVars, reportVars, otherSearchVars, selectedCancer,
                   selectedGene, searchQuery, searchError, barChartGene,
                   effGene>>

\* onChange of the table search box (line 828).
SetSearchQuery(q) ==
    /\ Interactive
    /\ searchQuery' = q
    /\ searchError' = ""
    /\ Step("setSearchQuery", 0)
    /\ UNCHANGED <<dataVars, reportVars, otherSearchVars, selectedCancer,
                   selectedGene, sortConfig, currentPage, barChartGene,
                   effGene>>

\* Variant: the gene name compared as stored, not upper-cased.
GeneMatchesExactCase(d, query) == d.gene_name = query

\* d.gene_name.toUpperCase() === query
GeneMatches(d, query) == ToUpperCase(d.gene_name) = query

\* Array.prototype.findIndex: the first matching 0-based index, or -1.
FindIndex(rows, query) ==
    LET hits == {i \in DOMAIN rows : GeneMatches(rows[i], query)}
    IN  IF hits = {} THEN -1
        ELSE (CHOOSE i \in hits : \A j \in hits : i <= j) - 1

\* The array handleSearch looks the query up in (line 328).
SearchedRows == sortedData

\* Variant: a miss also clears the table selection.
HandleSearchClearingSelection ==
    /\ Interactive
    /\ Trim(searchQuery) # ""
    /\ LET query == ToUpperCase(Trim(searchQuery))
           index == FindIndex(SearchedRows, query)
       IN  IF index = -1
           THEN /\ searchError' = TableMissMessage
                /\ selectedGene' = Null
                /\ UNCHANGED currentPage
           ELSE /\ searchError' = ""
                /\ currentPage' = (index \div PAGE_SIZE) + 1
                /\ selectedGene' = sortedData[index + 1].gene_name
    /\ Step("handleSearch", 0)
    /\ UNCHANGED <<dataVars, reportVars, otherSearchVars, selectedCancer,
                   sortConfig, searchQuery, barChartGene, effGene>>

HandleSearch ==
    /\ Interactive
    /\ Trim(searchQuery) # ""
    /\ LET query == ToUpperCase(Trim(searchQuery))
           index == FindIndex(SearchedRows, query)
       IN  IF index = -1
           THEN /\ searchError' = TableMissMessage
                /\ UNCHANGED <<currentPage, selectedGene>>
           ELSE /\ searchError' = ""
                /\ currentPage' = (index \div PAGE_SIZE) + 1
                /\ selectedGene' = sortedData[index + 1].gene_name
    /\ Step("handleSearch", 0)
    /\ UNCHANGED <<dataVars, reportVars, otherSearchVars, selectedCancer,
                   sortConfig, searchQuery, barChartGene, effGene>>

\* onChange of the volcano search box (line 717).
SetVolcanoSearch(q) ==
    /\ Interactive
    /\ volcanoSearch' = q
    /\ volcanoSearchError' = ""
    /\ Step("setVolcanoSearch", 0)
    /\ UNCHANGED <<dataVars, reportVars, selectedCancer, selectedGene,
                   sortConfig, searchQuery, searchError, currentPage,
                   barChartGene, barChartSearch, barChartSearchError,
                   globalSearch, globalSearchResults, effGene>>

\* d['Gene name'].toUpperCase() === query (lines 346 and 434).
NameMatches(d, query) == ToUpperCase(d.GeneName) = query

\* handleVolcanoSearch, lines 428-440.
HandleVolcanoSearch ==
    /\ Interactive
    /\ LET query == ToUpperCase(Trim(volcanoSearch))
           found == \E i \in 1..Len(filteredCptac) :
                        NameMatches(filteredCptac[i], query)
       IN  volcanoSearchError' =
               IF Trim(volcanoSearch) = "" THEN ""
               ELSE IF ~found THEN VolcanoMissMessage
               ELSE ""
    /\ Step("handleVolcanoSearch", 0)
    /\ UNCHANGED <<dataVars, reportVars, selectedCancer, selectedGene,
                   sortConfig, searchQuery, searchError, currentPage,
                   barChartGene, volcanoSearch, barChartSearch,
                   barChartSearchError, globalSearch, globalSearchResults,
                   effGene>>

\* onChange of the bar-chart search box (line 792).
SetBarChartSearch(q) ==
    /\ Interactive
    /\ barChartSearch' = q
    /\ barChartSearchError' = ""
    /\ Step("setBarChartSearch", 0)
    /\ UNCHANGED <<dataVars, reportVars, selectedCancer, selectedGene,
                   sortConfig, searchQuery, searchError, currentPage,
                   barChartGene, volcanoSearch, volcanoSearchError,
                   globalSearch, globalSearchResults, effGene>>

\* handleBarChartSearch, lines 340-353: tumorNormalData.find, none as <<>>.
HandleBarChartSearch ==
    /\ Interactive
    /\ LET query == ToUpperCase(Trim(barChartSearch))
           hits  == {i \in 1..Len(tumorNormalData) :
                        NameMatches(tumorNormalData[i], query)}
       IN  IF Trim(barChartSearch) = ""
           THEN barChartSearchError' = "" /\ UNCHANGED barChartGene
           ELSE IF hits = {}
           THEN /\ barChartSearchError' = BarChartMissMessage
                /\ UNCHANGED barChartGene
           ELSE /\ barChartSearchError' = ""
                /\ barChartGene' =
                       tumorNormalData[CHOOSE i \in hits :
                                          \A j \in hits : i <= j].GeneName
    /\ Step("handleBarChartSearch", 0)
    /\ UNCHANGED <<dataVars, reportVars, selectedCancer, selectedGene,
                   sortConfig, searchQuery, searchError, currentPage,
                   volcanoSearch, volcanoSearchError, barChartSearch,
                   globalSearch, globalSearchResults, effGene>>

\* onChange of the global search box (line 618).
SetGlobalSearch(q) ==
    /\ Interactive
    /\ globalSearch' = q
    /\ globalSearchResults' = <<>>
    /\ Step("setGlobalSearch", 0)
    /\ UNCHANGED <<dataVars, reportVars, selectedCancer, selectedGene,
                   sortConfig, searchQuery, searchError, currentPage,
                   barChartGene, volcanoSearch, volcanoSearchError,
                   barChartSearch, barChartSearchError, effGene>>

\* The Clear button of the global search box (lines 637-644).
ClearGlobalSearch ==
    /\ Interactive
    /\ Truthy(globalSearch)
    /\ globalSearch' = ""
    /\ globalSearchResults' = <<>>
    /\ volcanoSearch' = ""
    /\ volcanoSearchError' = ""
    /\ barChartSearchError' = ""
    /\ searchError' = ""
    /\ Step("clearGlobalSearch", 0)
    /\ UNCHANGED <<dataVars, reportVars, selectedCancer, selectedGene,
                   sortConfig, searchQuery, currentPage, barChartGene,
                   barChartSearch, effGene>>

\* Variant: a global search hit selects the gene and leaves the page alone.
HandleGlobalSearchKeepingPage ==
    /\ Interactive
    /\ LET query        == ToUpperCase(Trim(globalSearch))
           volcanoFound == \E i \in 1..Len(filteredCptac) :
                               NameMatches(filteredCptac[i], query)
           barHits      == {i \in 1..Len(tumorNormalData) :
                               NameMatches(tumorNormalData[i], query)}
           tableIndex   == FindIndex(sortedData, query)
       IN  IF Trim(globalSearch) = ""
           THEN /\ globalSearchResults' = <<>>
                /\ UNCHANGED <<volcanoSearch, volcanoSearchError, barChartGene,
                               barChartSearchError, currentPage, selectedGene,
                               searchError>>
           ELSE /\ globalSearchResults' =
                       [volcano  |-> volcanoFound,
                        barChart |-> barHits # {},
                        table    |-> tableIndex # -1]
                /\ volcanoSearch' = IF volcanoFound THEN query ELSE ""
                /\ volcanoSearchError' =
                       IF volcanoFound THEN "" ELSE GlobalMissMessage
                /\ IF barHits # {}
                   THEN /\ barChartGene' =
                               tumorNormalData[CHOOSE i \in barHits :
                                   \A j \in barHits : i <= j].GeneName
                        /\ barChartSearchError' = ""
                   ELSE /\ barChartSearchError' = GlobalMissMessage
                        /\ UNCHANGED barChartGene
                /\ IF tableIndex # -1
                   THEN /\ selectedGene' = sortedData[tableIndex + 1].gene_name
                        /\ searchError' = ""
                        /\ UNCHANGED currentPage
                   ELSE /\ searchError' = GlobalMissMessage
                        /\ UNCHANGED <<currentPage, selectedGene>>
    /\ Step("handleGlobalSearch", 0)
    /\ UNCHANGED <<dataVars, reportVars, selectedCancer, sortConfig,
                   searchQuery, barChartSearch, globalSearch, effGene>>

\* handleGlobalSearch, lines 356-401: the three look-ups, then the setters
\* of each view.
HandleGlobalSearch ==
    /\ Interactive
    /\ LET query        == ToUpperCase(Trim(globalSearch))
           volcanoFound == \E i \in 1..Len(filteredCptac) :
                               NameMatches(filteredCptac[i], query)
           barHits      == {i \in 1..Len(tumorNormalData) :
                               NameMatches(tumorNormalData[i], query)}
           tableIndex   == FindIndex(sortedData, query)
       IN  IF Trim(globalSearch) = ""
           THEN /\ globalSearchResults' = <<>>
                /\ UNCHANGED <<volcanoSearch, volcanoSearchError, barChartGene,
                               barChartSearchError, currentPage, selectedGene,
                               searchError>>
           ELSE /\ globalSearchResults' =
                       [volcano  |-> volcanoFound,
                        barChart |-> barHits # {},
                        table    |-> tableIndex # -1]
                /\ volcanoSearch' = IF volcanoFound THEN query ELSE ""
                /\ volcanoSearchError' =
                       IF volcanoFound THEN "" ELSE GlobalMissMessage
                /\ IF barHits # {}
                   THEN /\ barChartGene' =
                               tumorNormalData[CHOOSE i \in barHits :
                                   \A j \in barHits : i <= j].GeneName
                        /\ barChartSearchError' = ""
                   ELSE /\ barChartSearchError' = GlobalMissMessage
                        /\ UNCHANGED barChartGene
                /\ IF tableIndex # -1
                   THEN /\ currentPage' = (tableIndex \div PAGE_SIZE) + 1
                        /\ selectedGene' = sortedData[tableIndex + 1].gene_name
                        /\ searchError' = ""
                   ELSE /\ searchError' = GlobalMissMessage
                        /\ UNCHANGED <<currentPage, selectedGene>>
    /\ Step("handleGlobalSearch", 0)
    /\ UNCHANGED <<dataVars, reportVars, selectedCancer, sortConfig,
                   searchQuery, barChartSearch, globalSearch, effGene>>

\* onClick of a table row (line 860).
RowClick(i) ==
    /\ Interactive
    /\ i \in DOMAIN paginatedData
    /\ selectedGene' = paginatedData[i].gene_name
    /\ searchError' = ""
    /\ Step("rowClick", 0)
    /\ UNCHANGED <<dataVars, reportVars, otherSearchVars, selectedCancer,
                   sortConfig, searchQuery, currentPage, barChartGene,
                   effGene>>

\* The previous-page button (lines 881-887), disabled on page 1.
PrevPage ==
    /\ Interactive
    /\ currentPage # 1
    /\ currentPage' = Max(1, currentPage - 1)
    /\ Step("prevPage", 0)
    /\ UNCHANGED <<dataVars, reportVars, otherSearchVars, selectedCancer,
                   selectedGene, sortConfig, searchQuery, searchError,
                   barChartGene, effGene>>

\* The next-page button (lines 891-897), disabled on the last page.
NextPage ==
    /\ Interactive
    /\ currentPage # totalPages
    /\ currentPage' = Min(totalPages, currentPage + 1)
    /\ Step("nextPage", 0)
    /\ UNCHANGED <<dataVars, reportVars, otherSearchVars, selectedCancer,
                   selectedGene, sortConfig, searchQuery, searchError,
                   barChartGene, effGene>>

-----------------------------------------------------------------------------
(* Report gateway: generateReport, lines 503-522 *)

\* fetch rejects with a TypeError carrying this message.
FetchFailedMessage == "Failed to fetch"

\* res.json() rejects with a SyntaxError carrying this message.
JsonSyntaxMessage == "Unexpected token < in JSON"

\* What one request ends with.  kind "reject": the fetch promise rejects.
\* kind "response": an HTTP response with a status; json says whether the body
\* parses, error holds the message of the body's error field and report the
\* text of data.report, each as a sequence of at most one string.
Rejected ==
    [kind |-> "reject", status |-> 0, json |-> FALSE, error |-> <<>>,
     report |-> <<>>]

Response(status, json, error, report) ==
    [kind |-> "response", status |-> status, json |-> json, error |-> error,
     report |-> report]

\* Bodies: a report, an error field, a JSON object with neither, no JSON.
Outcomes ==
    {Rejected}
    \cup { Response(st, TRUE, <<>>, <<"R1">>) : st \in {200, 500} }
    \cup { Response(st, TRUE, <<"rate limited">>, <<>>) : st \in {200, 500} }
    \cup { Response(st, TRUE, <<>>, <<>>) : st \in {200, 500} }
    \cup { Response(st, FALSE, <<>>, <<>>) : st \in {200, 500} }

NoOutcome ==
    [kind |-> "none", status |-> 0, json |-> FALSE, error |-> <<>>,
     report |-> <<>>]

\* The string the try/catch of lines 509-520 hands to setReportContent.
ContentOf(o) ==
    IF o.kind = "reject" THEN <<"Error: ", FetchFailedMessage>>
    ELSE IF ~o.json THEN <<"Error: ", JsonSyntaxMessage>>
    ELSE IF o.error # <<>> THEN <<"Error: ", o.error[1]>>
    ELSE IF o.report # <<>> /\ o.report[1] # "" THEN <<o.report[1]>>
    ELSE <<"No report generated">>

\* filteredSelectivity.find(d => d.gene_name === geneName), none as <<>>.
FindGene(rows, geneName) ==
    LET hits == {i \in 1..Len(rows) : rows[i].gene_name = geneName}
    IN  IF hits = {} THEN <<>>
        ELSE <<rows[CHOOSE i \in hits : \A j \in hits : i <= j]>>

\* The genes a report can be asked for: the Report button of a displayed row
\* (line 868) and the Generate Report button of the global search (line 630).
ReportableGenes ==
    {paginatedData[i].gene_name :
        i \in (1..MaxClickRow) \cap (1..Len(paginatedData))}
    \cup (IF Trim(globalSearch) # "" THEN {Trim(globalSearch)} ELSE {})

\* Variant: asking for a report also selects the gene.
GenerateReportSelectingGene(geneName) ==
    /\ Interactive
    /\ Len(requests) < MaxReports
    /\ geneName \in ReportableGenes
    /\ reportGene' = geneName
    /\ reportLoading' = TRUE
    /\ reportModal' = TRUE
    /\ reportContent' = <<>>
    /\ selectedGene' = geneName
    /\ requests' = Append(requests,
          [geneName   |-> geneName,
           cancerType |-> IF selectedCancer = ALL_CANCERS
                          THEN "all cancer types" ELSE selectedCancer,
           geneData   |-> FindGene(filteredSelectivity, geneName),
           state      |-> "pending",
           outcome    |-> NoOutcome,
           arrival    |-> 0])
    /\ Step("generateReport", Len(requests) + 1)
    /\ UNCHANGED <<dataVars, otherSearchVars, selectedCancer,
                   sortConfig, searchQuery, searchError, currentPage,
                   barChartGene, effGene>>

\* generateReport up to its first await: the four setters and the request.
GenerateReport(geneName) ==
    /\ Interactive
    /\ Len(requests) < MaxReports
    /\ geneName \in ReportableGenes
    /\ reportGene' = geneName
    /\ reportLoading' = TRUE
    /\ reportModal' = TRUE
    /\ reportContent' = <<>>
    /\ requests' = Append(requests,
          [geneName   |-> geneName,
           cancerType |-> IF selectedCancer = ALL_CANCERS
                          THEN "all cancer types" ELSE selectedCancer,
           geneData   |-> FindGene(filteredSelectivity, geneName),
           state      |-> "pending",
           outcome    |-> NoOutcome,
           arrival    |-> 0])
    /\ Step("generateReport", Len(requests) + 1)
    /\ UNCHANGED <<dataVars, otherSearchVars, selectedCancer, selectedGene,
                   sortConfig, searchQuery, searchError, currentPage,
                   barChartGene, effGene>>

\* How many requests have settled.
Arrived == Cardinality({i \in 1..Len(requests) : requests[i].state = "done"})

\* Variant: a settled request writes only while it is the latest one issued.
ReportSettlesIfCurrent(i, o) ==
    /\ i \in 1..Len(requests)
    /\ requests[i].state = "pending"
    /\ reportContent' = IF i = Len(requests) THEN ContentOf(o)
                        ELSE reportContent
    /\ reportLoading' = IF i = Len(requests) THEN FALSE ELSE reportLoading
    /\ requests' = [requests EXCEPT ![i].state = "done", ![i].outcome = o,
                                    ![i].arrival = Arrived + 1]
    /\ last' = [op |-> "reportSettles", page |-> currentPage, arg |-> i]
    /\ UNCHANGED <<dataVars, otherSearchVars, selectedCancer, selectedGene,
                   sortConfig, searchQuery, searchError, currentPage,
                   barChartGene, effGene, reportModal, reportGene>>

\* The rest of generateReport for request i, once its fetch has settled with
\* outcome o: the continuation holds no test of which request is current.
ReportSettles(i, o) ==
    /\ i \in 1..Len(requests)
    /\ requests[i].state = "pending"
    /\ reportContent' = ContentOf(o)
    /\ reportLoading' = FALSE
    /\ requests' = [requests EXCEPT ![i].state = "done", ![i].outcome = o,
                                    ![i].arrival = Arrived + 1]
    /\ Step("reportSettles", i)
    /\ UNCHANGED <<dataVars, otherSearchVars, selectedCancer, selectedGene,
                   sortConfig, searchQuery, searchError, currentPage,
                   barChartGene, effGene, reportModal, reportGene>>

\* The close button of the report modal (line 916).
CloseReportModal ==
    /\ Interactive
    /\ reportModal
    /\ reportModal' = FALSE
    /\ Step("closeReportModal", 0)
    /\ UNCHANGED <<dataVars, otherSearchVars, selectedCancer, selectedGene,
                   sortConfig, searchQuery, searchError, currentPage,
                   barChartGene, effGene, reportLoading, reportContent,
                   reportGene, requests>>

-----------------------------------------------------------------------------
(* Specifications *)

\* The table pipeline on a few datasets, all handlers.
Next ==
    \/ Loads(UiDatasets)
    \/ RunEffects
    \/ \E s \in Sources : FetchResolves(s)
    \/ \E s \in Sources : FetchRejects(s)
    \/ \E cancer \in Scopes : HandleCancerChange(cancer)
    \/ \E key \in SortKeys : HandleSort(key)
    \/ \E q \in Queries : SetSearchQuery(q)
    \/ HandleSearch
    \/ \E i \in 1..MaxClickRow : RowClick(i)
    \/ PrevPage
    \/ NextPage

Spec == Init /\ [][Next]_vars

\* The cancer-type filter on every dataset of up to MaxRows rows.
NextFilter ==
    \/ Loads(EnumDatasets)
    \/ RunEffects
    \/ \E s \in Sources : FetchResolves(s)
    \/ \E s \in Sources : FetchRejects(s)
    \/ \E cancer \in Scopes : HandleCancerChange(cancer)

SpecFilter == Init /\ [][NextFilter]_vars

\* The sort on every dataset of up to MaxRows rows.
NextSort ==
    \/ Loads(SortDatasets)
    \/ RunEffects
    \/ \E s \in Sources : FetchResolves(s)
    \/ \E s \in Sources : FetchRejects(s)
    \/ \E key \in SortKeys : HandleSort(key)

SpecSort == Init /\ [][NextSort]_vars

\* Pagination on generated datasets of the lengths GenSizes.
NextPages ==
    \/ Loads(GenDatasets)
    \/ RunEffects
    \/ \E s \in Sources : FetchResolves(s)
    \/ \E s \in Sources : FetchRejects(s)
    \/ \E cancer \in Scopes : HandleCancerChange(cancer)
    \/ \E key \in SortKeys : HandleSort(key)
    \/ PrevPage
    \/ NextPage

SpecPages == Init /\ [][NextPages]_vars

\* The report gateway on the example dataset.
NextReport ==
    \/ Loads({ExampleData})
    \/ RunEffects
    \/ \E s \in Sources : FetchResolves(s)
    \/ \E s \in Sources : FetchRejects(s)
    \/ \E g \in ReportableGenes : GenerateReport(g)
    \/ \E i \in 1..MaxReports, o \in Outcomes : ReportSettles(i, o)
    \/ CloseReportModal

SpecReport == Init /\ [][NextReport]_vars

\* The cancer-type filter on every differential dataset of up to MaxRows rows.
NextCptac ==
    \/ loading /\ \E cp \in CptacDatasets : Load(ExampleData, IhcData, cp)
    \/ RunEffects
    \/ \E s \in Sources : FetchResolves(s)
    \/ \E s \in Sources : FetchRejects(s)
    \/ \E cancer \in Scopes : HandleCancerChange(cancer)

SpecCptac == Init /\ [][NextCptac]_vars

\* The searches of the three views.
NextSearch ==
    \/ Loads({ExampleData})
    \/ RunEffects
    \/ \E s \in Sources : FetchResolves(s)
    \/ \E s \in Sources : FetchRejects(s)
    \/ \E cancer \in Scopes : HandleCancerChange(cancer)
    \/ \E q \in ViewQueries : SetSearchQuery(q)
    \/ HandleSearch
    \/ \E q \in ViewQueries : SetVolcanoSearch(q)
    \/ HandleVolcanoSearch
    \/ \E q \in ViewQueries : SetBarChartSearch(q)
    \/ HandleBarChartSearch

SpecSearch == Init /\ [][NextSearch]_vars

\* The table search and the global search on datasets of one and two pages.
NextJump ==
    \/ Loads(JumpDatasets)
    \/ RunEffects
    \/ \E s \in Sources : FetchResolves(s)
    \/ \E s \in Sources : FetchRejects(s)
    \/ \E q \in JumpQueries : SetSearchQuery(q)
    \/ HandleSearch
    \/ \E q \in JumpQueries : SetGlobalSearch(q)
    \/ HandleGlobalSearch
    \/ PrevPage
    \/ NextPage

SpecJump == Init /\ [][NextJump]_vars

\* Every handler that sets the table selection, on a few datasets.
NextSelect ==
    \/ Loads(SelectDatasets)
    \/ RunEffects
    \/ \E s \in Sources : FetchResolves(s)
    \/ \E s \in Sources : FetchRejects(s)
    \/ \E cancer \in Scopes : HandleCancerChange(cancer)
    \/ \E key \in SortKeys : HandleSort(key)
    \/ \E q \in ViewQueries : SetSearchQuery(q)
    \/ HandleSearch
    \/ \E q \in ViewQueries : SetGlobalSearch(q)
    \/ HandleGlobalSearch
    \/ ClearGlobalSearch
    \/ \E i \in 1..MaxClickRow : RowClick(i)
    \/ PrevPage
    \/ NextPage

SpecSelect == Init /\ [][NextSelect]_vars

\* The load on enumerated file texts.
NextParse ==
    \/ \E s \in Sources : \E text \in TextsOf(s) : FetchDelivers(s, text)
    \/ \E s \in Sources : FetchRejects(s)
    \/ LoadBodies

SpecParse == Init /\ [][NextParse]_vars


(***************************************************************************)
(* Properties of the selectivity view.                                     *)
(***************************************************************************)

\* The raw rows of one gene, and the indices of the raw rows of one project.
RawRowsOf(g) ==
    {i \in 1..Len(selectivityData) : selectivityData[i].gene_name = g}

RawGenes == {selectivityData[i].gene_name : i \in 1..Len(selectivityData)}

ViewRowsOf(view, g) == {k \in 1..Len(view) : view[k].gene_name = g}

\* C1: under the All Cancers scope the view holds exactly one record for each
\* gene of the loaded data, and that record's Selection_Score is greater than
\* or equal to the score of every raw record of the same gene whose score is
\* a number.
C1_AllCancersKeepsMaxPerGene ==
    (~loading /\ selectedCancer = ALL_CANCERS) =>
        LET view == SubSeq(filteredSelectivity, 1, Len(filteredSelectivity))
        IN  /\ \A k \in 1..Len(view) : view[k].gene_name \in RawGenes
            /\ \A g \in RawGenes :
                 /\ Cardinality(ViewRowsOf(view, g)) = 1
                 /\ \A k \in ViewRowsOf(view, g) : \A i \in RawRowsOf(g) :
                      ~Number(selectivityData[i].Selection_Score).nan =>
                          JsGe(Number(view[k].Selection_Score),
                               Number(selectivityData[i].Selection_Score))

\* The raw rows of gene g whose score is a number, and those of them whose
\* score no other of them exceeds.
NumericRowsOf(g) ==
    {i \in RawRowsOf(g) : ~Number(selectivityData[i].Selection_Score).nan}

TopRowsOf(g) ==
    {i \in NumericRowsOf(g) : \A j \in NumericRowsOf(g) :
        JsGe(Number(selectivityData[i].Selection_Score),
             Number(selectivityData[j].Selection_Score))}

\* C14: under the All Cancers scope, when two or more raw records of a gene
\* share the gene's maximal score, the view's record of the gene is the first
\* of them in input order.
C14_TieKeepsFirstInInputOrder ==
    (~loading /\ selectedCancer = ALL_CANCERS) =>
        LET view == SubSeq(filteredSelectivity, 1, Len(filteredSelectivity))
        IN  \A g \in RawGenes :
              Cardinality(TopRowsOf(g)) >= 2 =>
                \A k \in ViewRowsOf(view, g) :
                    view[k] = selectivityData[
                        CHOOSE i \in TopRowsOf(g) : \A j \in TopRowsOf(g) : i <= j]

\* C17: under every scope no two records of the selectivity view have the
\* same gene_name.
C17_GeneNameUniqueInView ==
    ~loading =>
        \A i, j \in 1..Len(filteredSelectivity) :
            filteredSelectivity[i].gene_name = filteredSelectivity[j].gene_name
                => i = j

\* The k-th smallest member of a set of indices.
KthIndex(S, k) == CHOOSE i \in S : Cardinality({j \in S : j <= i}) = k

\* C2: under a single cancer type the view is the subsequence of the loaded
\* data, in its order, of exactly the records whose active_project is the
\* selected type character for character.
C2_SingleCancerExactSubsequence ==
    (~loading /\ selectedCancer # ALL_CANCERS) =>
        LET view == SubSeq(filteredSelectivity, 1, Len(filteredSelectivity))
            keep == {i \in 1..Len(selectivityData) :
                        selectivityData[i].active_project = selectedCancer}
        IN  /\ Len(view) = Cardinality(keep)
            /\ \A k \in 1..Len(view) :
                 /\ view[k].active_project = selectedCancer
                 /\ view[k] = selectivityData[KthIndex(keep, k)]

\* A single-type view that keeps some records and drops one whose project
\* differs from the selected type only in letter case.
C2_Witness ==
    /\ ~loading
    /\ selectedCancer # ALL_CANCERS
    /\ Len(filteredSelectivity) >= 1
    /\ Len(filteredSelectivity) < Len(selectivityData)
    /\ \E i \in 1..Len(selectivityData) :
         /\ selectivityData[i].active_project # selectedCancer
         /\ ToUpperCase(selectivityData[i].active_project)
              = ToUpperCase(selectedCancer)


(***************************************************************************)
(* Properties of the table search.                                         *)
(***************************************************************************)

\* Two texts that are equal once letter case is disregarded.
SameIgnoringCase(a, b) == ToUpperCase(a) = ToUpperCase(b)

\* The positions of the view whose gene is the one asked for.
ViewHits ==
    {k \in 1..Len(sortedData) :
        SameIgnoringCase(sortedData[k].gene_name, Trim(searchQuery))}

\* C3: a table search looks in the filtered and sorted view only and ignores
\* letter case: when the view holds the gene, the first such record of the
\* view is selected and no miss is shown; when the view lacks it, the miss
\* message is shown, whatever the loaded data holds.
C3_SearchCaseInsensitiveOnView ==
    last.op = "handleSearch" =>
        IF ViewHits = {}
        THEN searchError = TableMissMessage
        ELSE /\ searchError = ""
             /\ \E k \in ViewHits :
                  /\ \A j \in ViewHits : k <= j
                  /\ selectedGene = sortedData[k].gene_name

\* A search that misses in the view of the selected type although the loaded
\* data holds the gene under another type.
C3_Witness ==
    /\ last.op = "handleSearch"
    /\ searchError = TableMissMessage
    /\ selectedCancer # ALL_CANCERS
    /\ \E i \in 1..Len(selectivityData) :
         /\ SameIgnoringCase(selectivityData[i].gene_name, Trim(searchQuery))
         /\ selectivityData[i].active_project \in CANCER_TYPES

\* The text the search just made looked for: the table box's or the global
\* box's, trimmed.
Searched ==
    IF last.op = "handleSearch" THEN Trim(searchQuery) ELSE Trim(globalSearch)

\* The positions of rows whose gene is the one looked for.
SearchedHits(rows) ==
    {k \in 1..Len(rows) : SameIgnoringCase(rows[k].gene_name, Searched)}

\* C22: right after a table search or a global search that finds the gene at
\* 0-based index i of the sorted view, the current page is floor(i / 50) + 1,
\* the selected gene is that record's, and the displayed page holds the record.
C22_SearchHitShowsSelectedRow ==
    (last.op \in {"handleSearch", "handleGlobalSearch"} /\ Searched # "") =>
        LET sorted == sortedData
            hits   == SearchedHits(sorted)
            page   == PaginatedDataOf(sorted, currentPage)
        IN  hits # {} =>
              LET k == CHOOSE h \in hits : \A j \in hits : h <= j
                  r == k - (currentPage - 1) * PAGE_SIZE
              IN  /\ currentPage = ((k - 1) \div PAGE_SIZE) + 1
                  /\ selectedGene = sorted[k].gene_name
                  /\ r \in 1..Len(page)
                  /\ page[r] = sorted[k]

\* A global search made on the first page that found its gene on the second.
C22_Witness ==
    /\ last.op = "handleGlobalSearch"
    /\ last.page = 1
    /\ currentPage = 2
    /\ Truthy(selectedGene)
    /\ ToUpperCase(Trim(globalSearch)) = ToUpperCase(selectedGene)
    /\ paginatedData[1].gene_name = selectedGene


(***************************************************************************)
(* Properties of pagination.                                               *)
(***************************************************************************)

\* The pages 1..n of a sequence, one after another.
PagesUpTo(sorted, n) ==
    LET cat[p \in 0..n] ==
            IF p = 0 THEN <<>>
            ELSE cat[p - 1] \o PaginatedDataOf(sorted, p)
    IN  cat[n]

\* C4: pages have 50 rows; the pages 1..totalPages, one after another, are
\* sortedData itself; totalPages is the least count of 50-row pages that
\* holds every row; and the last page of a non-empty view has total mod 50
\* rows, or 50 when 50 divides the total.
C4_PagesPartitionSortedData ==
    ~loading =>
        LET sorted == SubSeq(sortedData, 1, Len(sortedData))
            total  == Len(sorted)
        IN  /\ PAGE_SIZE = 50
            /\ totalPages * 50 >= total
            /\ (totalPages - 1) * 50 < total \/ (total = 0 /\ totalPages = 0)
            /\ PagesUpTo(sorted, totalPages) = sorted
            /\ \A p \in 1..(totalPages - 1) :
                 Len(PaginatedDataOf(sorted, p)) = 50
            /\ total > 0 =>
                 Len(PaginatedDataOf(sorted, totalPages))
                   = IF total % 50 = 0 THEN 50 ELSE total % 50

\* The second and last page of a view of 51 rows is on display and has one
\* row.
C4_Witness ==
    /\ ~loading
    /\ Len(sortedData) = 51
    /\ totalPages = 2
    /\ currentPage = 2
    /\ Len(paginatedData) = 1
    /\ paginatedData[1] = sortedData[51]

\* C5: right after handleCancerChange or handleSort the current page is 1.
C5_FilterAndSortResetPage ==
    last.op \in {"handleCancerChange", "handleSort"} => currentPage = 1

\* A sort request made on the second page.
C5_Witness ==
    /\ last.op = "handleSort"
    /\ last.page = 2
    /\ currentPage = 1
    /\ totalPages = 2

\* C19: the current page is at least 1 and at most max(1, totalPages), also
\* when the view is empty and totalPages is 0.
C19_CurrentPageInRange ==
    /\ currentPage >= 1
    /\ currentPage <= Max(1, totalPages)


(***************************************************************************)
(* Properties of sorting.                                                  *)
(***************************************************************************)

Opposite(dir) == IF dir = "desc" THEN "asc" ELSE "desc"

\* C6: sortConfig starts as (Selection_Score, desc); a sort request on the
\* active key reverses the direction, and a sort request on another key makes
\* that key active and descending whatever the direction was.
C6_SortConfigDefaultAndToggle ==
    /\ sortConfig = [key |-> "Selection_Score", dir |-> "desc"]
    /\ [][\A k \in SortKeys :
            HandleSort(k) =>
                /\ sortConfig'.key = k
                /\ sortConfig.key = k => sortConfig'.dir = Opposite(sortConfig.dir)
                /\ sortConfig.key # k => sortConfig'.dir = "desc"]_vars

\* A key other than the default made active and then reversed to ascending.
C6_Witness ==
    /\ last.op = "handleSort"
    /\ sortConfig = [key |-> "max_tumor_expression", dir |-> "asc"]

\* The number a field counts as: its numeric value, 0 when it does not parse.
KeyValue(d, key) ==
    IF Number(d[key]).nan THEN 0 ELSE Number(d[key]).val

\* The rows of a sequence whose key counts as v, in the sequence's order.
RowsWithKey(rows, key, v) ==
    SelectSeq(rows, LAMBDA d : KeyValue(d, key) = v)

\* C7: sortedData is ordered by the number the chosen field counts as,
\* non-increasing for desc and non-decreasing for asc, and for each such
\* number holds exactly the view's records with it, in the view's order.
C7_SortedDataStableOrdered ==
    ~loading =>
        LET view   == SubSeq(filteredSelectivity, 1, Len(filteredSelectivity))
            sorted == SubSeq(sortedData, 1, Len(sortedData))
            key    == sortConfig.key
        IN  /\ Len(sorted) = Len(view)
            /\ \A k \in 1..(Len(sorted) - 1) :
                 IF sortConfig.dir = "desc"
                 THEN KeyValue(sorted[k], key) >= KeyValue(sorted[k + 1], key)
                 ELSE KeyValue(sorted[k], key) <= KeyValue(sorted[k + 1], key)
            /\ \A i \in 1..Len(view) :
                 RowsWithKey(sorted, key, KeyValue(view[i], key))
                   = RowsWithKey(view, key, KeyValue(view[i], key))

\* An ascending sort that reorders a view holding two different records with
\* equal keys and a record whose key does not parse.
C7_Witness ==
    /\ last.op = "handleSort"
    /\ sortConfig.dir = "asc"
    /\ sortedData # filteredSelectivity
    /\ \E i, j \in 1..Len(filteredSelectivity) :
         /\ i < j
         /\ filteredSelectivity[i] # filteredSelectivity[j]
         /\ KeyValue(filteredSelectivity[i], sortConfig.key)
              = KeyValue(filteredSelectivity[j], sortConfig.key)
    /\ \E i \in 1..Len(filteredSelectivity) :
         Number(filteredSelectivity[i][sortConfig.key]).nan

\* C8: from any sorted view, two further sort requests on the active key give
\* back the same row order, rows with equal keys included.
C8_ReverseTwiceRestoresOrder ==
    ~loading =>
        LET once  == NextSortConfig(sortConfig, sortConfig.key)
            twice == NextSortConfig(once, sortConfig.key)
        IN  /\ once.dir # sortConfig.dir
            /\ SortedDataOf(filteredSelectivity, twice)
                 = SubSeq(sortedData, 1, Len(sortedData))

\* A sorted view with two different records of equal key whose order is not
\* the order of the same view sorted the other way.
C8_Witness ==
    /\ last.op = "handleSort"
    /\ SortedDataOf(filteredSelectivity,
                    NextSortConfig(sortConfig, sortConfig.key)) # sortedData
    /\ \E i, j \in 1..Len(sortedData) :
         /\ i < j
         /\ sortedData[i] # sortedData[j]
         /\ KeyValue(sortedData[i], sortConfig.key)
              = KeyValue(sortedData[j], sortConfig.key)

(***************************************************************************)
(* Properties of the report gateway.                                       *)
(***************************************************************************)

\* The three ways a report request fails.
ReportFailed(o) ==
    \/ o.kind = "reject"
    \/ o.kind = "response" /\ o.status \notin 200..299
    \/ o.kind = "response" /\ o.json /\ o.error # <<>>

\* C9: when a request has failed in one of the three ways, the content set is
\* an error string with a reason in it, the message of the body's error field
\* when there is one.
C9_FailureYieldsErrorText ==
    last.op = "reportSettles" =>
        LET o == requests[last.arg].outcome
        IN  ReportFailed(o) =>
                /\ Len(reportContent) = 2
                /\ reportContent[1] = "Error: "
                /\ (o.kind = "response" /\ o.json /\ o.error # <<>>)
                       => reportContent[2] = o.error[1]

\* The request whose response arrived last.
LastArrived ==
    CHOOSE i \in 1..Len(requests) :
        \A j \in 1..Len(requests) : requests[j].arrival <= requests[i].arrival

\* C10: once every issued request has been answered, the content is the one
\* of the response that arrived last, whichever request it answers.
C10_LastArrivalWins ==
    (Len(requests) >= 1 /\ \A i \in 1..Len(requests) : requests[i].state = "done")
        => reportContent = ContentOf(requests[LastArrived].outcome)

\* Two overlapping requests for different genes, the earlier one answered
\* last: its content is on display under the later request's gene.
C10_Witness ==
    /\ Len(requests) = 2
    /\ requests[1].state = "done" /\ requests[2].state = "done"
    /\ requests[1].arrival > requests[2].arrival
    /\ requests[1].geneName # requests[2].geneName
    /\ reportGene = requests[2].geneName
    /\ ContentOf(requests[1].outcome) # ContentOf(requests[2].outcome)
    /\ reportContent = ContentOf(requests[1].outcome)

\* What a report request must leave alone: the scope, the sort, the page, the
\* selection, every search state and the loaded data.
PipelineState ==
    <<selectedCancer, sortConfig, currentPage, selectedGene, searchQuery,
      searchError, otherSearchVars, barChartGene, selectivityData,
      tumorNormalData, cptacData, loading>>

\* C18: a step that issues a report request, and a step in which a request's
\* response or failure arrives, change nothing but reportGene, reportLoading,
\* reportModal and reportContent.
C18_ReportLeavesPipelineUnchanged ==
    [][requests' # requests => UNCHANGED PipelineState]_vars

\* A report asked for a gene other than the selected one has been answered,
\* by a failure, and the selection is still the other gene.
C18_Witness ==
    /\ last.op = "reportSettles"
    /\ requests[last.arg].state = "done"
    /\ ReportFailed(requests[last.arg].outcome)
    /\ Truthy(selectedGene)
    /\ requests[last.arg].geneName # selectedGene

\* C20: while some issued report request has not completed, reportLoading is
\* true, whatever the order of invocations and arrivals.
C20_LoadingWhilePending ==
    (\E i \in 1..Len(requests) : requests[i].state = "pending")
        => reportLoading

\* C21: when reportLoading is false and reportContent is not empty, the
\* content is the outcome of a request issued for the gene held in reportGene,
\* so the modal's title and the PDF's name match the content.
C21_ContentBelongsToReportGene ==
    (~reportLoading /\ reportContent # <<>>) =>
        \E i \in 1..Len(requests) :
            /\ requests[i].geneName = reportGene
            /\ requests[i].state = "done"
            /\ reportContent = ContentOf(requests[i].outcome)


(***************************************************************************)
(* Properties of the startup load.                                         *)
(***************************************************************************)

NothingLoaded ==
    selectivityData = <<>> /\ tumorNormalData = <<>> /\ cptacData = <<>>

\* C11: in every state either the load is still pending, with loading true
\* and the three datasets empty, or loading is false and all three fetches
\* have completed; and once one of the three fetches has failed, loading is
\* true and the datasets are empty in that state and in every later one.
C11_LoadIsAllOrNothing ==
    /\ [](\/ loading /\ NothingLoaded
          \/ ~loading /\ \A s \in Sources : fetches[s] = "resolved")
    /\ [](\A s \in Sources :
            fetches[s] = "rejected" => [](loading /\ NothingLoaded))

\* Two files have arrived and the third fetch has failed: still loading.
C11_Witness ==
    /\ fetches["cptac"] = "rejected"
    /\ fetches["selectivity"] = "resolved"
    /\ fetches["tumorNormal"] = "resolved"
    /\ loading
    /\ NothingLoaded


(***************************************************************************)
(* Properties of the parser.                                               *)
(***************************************************************************)

\* A line of white space only.
Blank(line) == \A i \in 1..Len(line) : line[i] \in Whitespace

\* The lines of a file text, blank lines before the first and after the last
\* written line left out.
FileLines(text) ==
    LET parts == Split(text, NL)
        solid == {k \in 1..Len(parts) : ~Blank(parts[k])}
    IN  IF solid = {} THEN <<>>
        ELSE SubSeq(parts, CHOOSE k \in solid : \A j \in solid : k <= j,
                           CHOOSE k \in solid : \A j \in solid : j <= k)

\* The fields of a line cut at the separator sep.
FieldsBy(line, sep) ==
    LET parts == Split(line, sep)
    IN  [i \in 1..Len(parts) |-> Spell(parts[i])]

\* C12: the records parsed from a text are one per line after the first; each
\* has exactly the field names of the first line, and under a name that the
\* first line holds once, at position i, the i-th field of its own line, the
\* empty string when the line is shorter.
C12_OneRecordPerLinePositional ==
    ~loading =>
        LET lines == FileLines(bodies["selectivity"])
        IN  lines # <<>> =>
              LET headers == FieldsBy(lines[1], TAB)
                  names   == {headers[i] : i \in 1..Len(headers)}
                  once    == {i \in 1..Len(headers) :
                                \A j \in 1..Len(headers) :
                                    headers[j] = headers[i] => j = i}
              IN  /\ Len(selectivityData) = Len(lines) - 1
                  /\ \A k \in 1..Len(selectivityData) :
                       /\ DOMAIN selectivityData[k] = names
                       /\ \A i \in once :
                            LET values == FieldsBy(lines[k + 1], TAB)
                            IN  selectivityData[k][headers[i]]
                                  = IF i <= Len(values) THEN values[i] ELSE ""

\* A file text read as lines of fields separated by sep under a header line.
ReadDelimited(text, sep) ==
    LET lines   == FileLines(text)
        headers == FieldsBy(lines[1], sep)
    IN  [k \in 1..(Len(lines) - 1) |->
            RecordOf(headers, FieldsBy(lines[k + 1], sep))]

\* C13: a selectivity text without tabs is read as comma-separated fields
\* under a comma-separated header line, and the other two texts as
\* tab-separated fields under a tab-separated header line.
C13_SelectivityCommaOthersTab ==
    ~loading =>
        /\ (   FileLines(bodies["selectivity"]) # <<>>
            /\ \A i \in 1..Len(bodies["selectivity"]) :
                   bodies["selectivity"][i] # TAB)
             => selectivityData = ReadDelimited(bodies["selectivity"], ",")
        /\ tumorNormalData = ReadDelimited(bodies["tumorNormal"], TAB)
        /\ cptacData = ReadDelimited(bodies["cptac"], TAB)


(***************************************************************************)
(* Properties of the differential view.                                    *)
(***************************************************************************)

\* C15: under the All Cancers scope filteredCptac is the loaded differential
\* data itself; under a single cancer type it is the subsequence, in input
\* order, of exactly the records whose Cancer is the selected type character
\* for character.
C15_DifferentialViewFilter ==
    ~loading =>
        LET view == SubSeq(filteredCptac, 1, Len(filteredCptac))
            keep == {i \in 1..Len(cptacData) :
                        cptacData[i].Cancer = selectedCancer}
        IN  IF selectedCancer = ALL_CANCERS
            THEN view = cptacData
            ELSE /\ Len(view) = Cardinality(keep)
                 /\ \A k \in 1..Len(view) :
                      /\ view[k].Cancer = selectedCancer
                      /\ view[k] = cptacData[KthIndex(keep, k)]

\* A single-type differential view that keeps two records around one it
\* drops, the dropped one differing from the type only in letter case.
C15_Witness ==
    /\ ~loading
    /\ selectedCancer # ALL_CANCERS
    /\ Len(cptacData) = 3
    /\ Len(filteredCptac) = 2
    /\ filteredCptac[1] = cptacData[1]
    /\ filteredCptac[2] = cptacData[3]
    /\ filteredCptac[1] # filteredCptac[2]
    /\ ToUpperCase(cptacData[2].Cancer) = ToUpperCase(selectedCancer)


(***************************************************************************)
(* Properties of a search miss.                                            *)
(***************************************************************************)

\* A step of one of the three view searches that finds no match.
TableMiss == HandleSearch /\ ViewHits = {}

VolcanoMiss ==
    /\ HandleVolcanoSearch
    /\ Trim(volcanoSearch) # ""
    /\ \A i \in 1..Len(filteredCptac) :
         ~SameIgnoringCase(filteredCptac[i].GeneName, Trim(volcanoSearch))

BarChartMiss ==
    /\ HandleBarChartSearch
    /\ Trim(barChartSearch) # ""
    /\ \A i \in 1..Len(tumorNormalData) :
         ~SameIgnoringCase(tumorNormalData[i].GeneName, Trim(barChartSearch))

\* What no miss of any view may change.
MissFrame ==
    <<currentPage, selectedGene, barChartGene, sortConfig, selectedCancer,
      searchQuery, volcanoSearch, barChartSearch, globalSearch,
      globalSearchResults>>

\* C16: a table, volcano or bar-chart search that finds no match sets the
\* miss message of its own view and leaves currentPage, selectedGene,
\* barChartGene, sortConfig, selectedCancer, every search text and the
\* messages of the other two views as they were.
C16_MissSetsOnlyOwnMessage ==
    [][ /\ TableMiss =>
             /\ searchError' = TableMissMessage
             /\ UNCHANGED <<MissFrame, volcanoSearchError, barChartSearchError>>
        /\ VolcanoMiss =>
             /\ volcanoSearchError' = VolcanoMissMessage
             /\ UNCHANGED <<MissFrame, searchError, barChartSearchError>>
        /\ BarChartMiss =>
             /\ barChartSearchError' = BarChartMissMessage
             /\ UNCHANGED <<MissFrame, searchError, volcanoSearchError>>
      ]_vars

\* A table miss with the misses of the other two views still on display and
\* the selection kept.
C16_Witness ==
    /\ last.op = "handleSearch"
    /\ searchError = TableMissMessage
    /\ volcanoSearchError = VolcanoMissMessage
    /\ barChartSearchError = BarChartMissMessage
    /\ Truthy(selectedGene)
    /\ barChartGene = selectedGene


(***************************************************************************)
(* Properties of the table selection.                                      *)
(***************************************************************************)

\* The gene names of the current selectivity view.
ViewGenes ==
    {filteredSelectivity[i].gene_name : i \in 1..Len(filteredSelectivity)}

\* C23: a selected gene is the gene of some record of the current selectivity
\* view; a change of scope clears the selection; and the effects that run
\* after the change select the first row of the new sorted view when the view
\* has rows.
C23_SelectedGeneInView ==
    /\ [](selectedGene # Null => selectedGene \in ViewGenes)
    /\ [](last.op = "handleCancerChange" => selectedGene = Null)
    /\ [][(last.op = "handleCancerChange" /\ last'.op = "effects")
            => (Len(sortedData') > 0
                  => selectedGene' = sortedData'[1].gene_name)]_vars

\* The scope was changed to one whose view lacks a gene of the loaded data,
\* and the effects have selected the first row of the new view.
C23_Witness ==
    /\ last.op = "effects"
    /\ EffectsIdle
    /\ selectedCancer = "lung cancer"
    /\ Len(sortedData) > 0
    /\ selectedGene = sortedData[1].gene_name
    /\ \E i \in 1..Len(selectivityData) :
         selectivityData[i].gene_name \notin ViewGenes

====
